---- MODULE Spec2Model ----
(***************************************************************************)
(* Conversion-readiness scoring engine (analytics/scoring.py).             *)
(*                                                                         *)
(* Numbers.  The program computes in binary floating point; the model      *)
(* computes the same expressions exactly, in fixed point:                  *)
(*   - a score (points 0..100) is an integer count of 1/Den points;        *)
(*   - a growth rate is an integer count of 1/10^4 (records carry growth   *)
(*     rounded to 4 decimals: signals.py:117, generator.py:242);           *)
(*   - prod_ratio is in 1/10^3 (generator.py:203), error_rate in 1/10^4    *)
(*     (generator.py:204), marketplace_to_direct in 1/10^2                 *)
(*     (generator.py:221);                                                 *)
(*   - spend is in whole dollars, counts are integers;                     *)
(*   - a value returned through round(x, 1) is an integer count of tenths. *)
(* Den holds every denominator the piecewise curves and the weights        *)
(* produce, so each weighted sum below is exact.                           *)
(***************************************************************************)
EXTENDS Integers, Sequences, FiniteSets, TLC

VARIABLES row, locals, result, call, pc

vars == <<row, locals, result, call, pc>>

----------------------------------------------------------------------------
(* Fixed-point helpers *)

Den == 2^4 * 3 * 5^5 * 7 * 11

Pts(n) == n * Den

\* num/den points, exact (den divides Den)
Frac(num, den) == (Den \div den) * num

\* w = num/den of x, exact for every value the curves produce
Weigh(x, num, den) == (x \div den) * num

Min(a, b) == IF a <= b THEN a ELSE b

Max(a, b) == IF a >= b THEN a ELSE b

Abs(a) == IF a < 0 THEN -a ELSE a

\* min(cap, num/den) in points, evaluated without forming num/den when it exceeds cap
CapHi(cap, num, den) == IF num >= cap * den THEN Pts(cap) ELSE Frac(num, den)

\* max(0, num/den) in points
ClampLo0(num, den) == IF num <= 0 THEN 0 ELSE Frac(num, den)

\* n/d*100 points, truncated to 1/1000 point (n, d are logarithms in 1/10^5)
Ratio100(n, d) ==
    ((n * 100) \div d) * Den + ((((n * 100) % d) * 1000) \div d) * (Den \div 1000)

\* np.log10 at the sample points the model uses, in 1/10^5
Log10(x) ==
    CASE x = 1      -> 0
      [] x = 10     -> 100000
      [] x = 100    -> 200000
      [] x = 500    -> 269897
      [] x = 1000   -> 300000
      [] x = 10000  -> 400000
      [] x = 20000  -> 430103
      [] x = 50000  -> 469897
      [] x = 80000  -> 490309
      [] x = 100000 -> 500000

\* round(x, 1): x in 1/Den points, result in tenths (ties to even)
Round1(x) ==
    LET t == Den \div 10
        q == x \div t
        r == x % t
    IN  IF 2 * r > t THEN q + 1
        ELSE IF 2 * r < t THEN q
        ELSE IF q % 2 = 0 THEN q ELSE q + 1

\* A lookup that takes the default even when the row has the key
RowGetDefault(r, key, default) == default

\* row.get(key, default)
RowGet(r, key, default) == IF key \in DOMAIN r THEN r[key] ELSE default

----------------------------------------------------------------------------
(* Constants of scoring.py *)

STAGE_THRESHOLDS ==
    << <<78, "Enterprise Ready">>,
       <<63, "High Velocity">>,
       <<48, "Qualified">>,
       <<33, "Nurture">>,
       <<0, "At Risk">> >>

Stages == {"Enterprise Ready", "High Velocity", "Qualified", "Nurture", "At Risk"}

MAX_SPEND == 80000

SPEND_FLOOR == 500

REQUESTS_CEILING == 100000

----------------------------------------------------------------------------
(* Category scorers *)

\* A spend scorer without the lower clamp max(0, ...)
normalize_spend_log_unclamped(spend) ==
    IF spend <= 0 THEN 0
    ELSE LET log_val == Log10(Max(spend, 1))
             log_max == Log10(MAX_SPEND)
             log_min == Log10(SPEND_FLOOR)
         IN  Min(Pts(100), Ratio100(log_val - log_min, log_max - log_min))

\* Lines 40-47
normalize_spend_log(spend) ==
    IF spend <= 0 THEN 0
    ELSE LET log_val == Log10(Max(spend, 1))
             log_max == Log10(MAX_SPEND)
             log_min == Log10(SPEND_FLOOR)
         IN  Min(Pts(100), Max(0, Ratio100(log_val - log_min, log_max - log_min)))

\* A growth scorer whose lowest segment climbs to 50 instead of 40
score_growth_steep(growth_rate) ==
    IF growth_rate >= 5000 THEN Pts(100)
    ELSE IF growth_rate >= 2000 THEN Pts(40) + Frac(growth_rate - 2000, 50)
    ELSE IF growth_rate >= 0 THEN Frac(growth_rate, 40)
    ELSE ClampLo0(2000 + growth_rate, 100)

\* Lines 50-59.  For g in 1/10^4: (g-0.20)/0.30*60 is (g-2000)/50 points,
\* g/0.20*40 is g/50 points, 20 + g*100 is (2000+g)/100 points.
score_growth(growth_rate) ==
    IF growth_rate >= 5000 THEN Pts(100)
    ELSE IF growth_rate >= 2000 THEN Pts(40) + Frac(growth_rate - 2000, 50)
    ELSE IF growth_rate >= 0 THEN Frac(growth_rate, 50)
    ELSE ClampLo0(2000 + growth_rate, 100)

score_daily_requests(daily_requests) ==
    IF daily_requests <= 0 THEN 0
    ELSE LET log_val == Log10(Max(daily_requests, 1))
         IN  Min(Pts(100), Max(0, Ratio100(log_val, Log10(REQUESTS_CEILING))))

score_prod_ratio(prod_ratio) ==
    IF prod_ratio >= 950 THEN Pts(100)
    ELSE IF prod_ratio >= 400 THEN Frac((prod_ratio - 400) * 2, 11)
    ELSE Frac(prod_ratio, 40)

score_error_rate(error_rate) ==
    IF 50 <= error_rate /\ error_rate <= 200 THEN Pts(100)
    ELSE IF error_rate < 50 THEN Pts(50) + Frac(error_rate, 1)
    ELSE IF error_rate <= 500 THEN ClampLo0(1500 - (error_rate - 200) * 4, 15)
    ELSE ClampLo0(500 - (error_rate - 500), 25)

score_model_diversity(n_models) ==
    IF n_models >= 3 THEN Pts(100)
    ELSE IF n_models = 2 THEN Pts(60)
    ELSE IF n_models = 1 THEN Pts(20)
    ELSE 0

score_domain_users(unique_users) ==
    IF unique_users >= 10 THEN Pts(100)
    ELSE Frac(unique_users * 100, 10)

\* A seat scorer that gives any seat count the full score
score_enterprise_seats_binary(seats) == IF seats > 0 THEN Pts(100) ELSE 0

\* Lines 112-118
score_enterprise_seats(seats) ==
    IF seats >= 100 THEN Pts(100)
    ELSE IF seats > 0 THEN Min(Pts(100), Frac(seats * 100, 100))
    ELSE 0

\* A cross-channel scorer that grants the bonus at a ratio of exactly 3.0 too
score_cross_channel_ge(n_channels, marketplace_to_direct) ==
    LET channel_score == Min(Pts(100), Pts((n_channels - 1) * 40))
    IN  IF marketplace_to_direct >= 300
        THEN Min(Pts(100), channel_score + Pts(20))
        ELSE channel_score

\* Lines 121-129 (marketplace_to_direct in 1/100)
score_cross_channel(n_channels, marketplace_to_direct) ==
    LET channel_score == Min(Pts(100), Pts((n_channels - 1) * 40))
    IN  IF marketplace_to_direct > 300
        THEN Min(Pts(100), channel_score + Pts(20))
        ELSE channel_score

\* A risk penalty that leaves out the single-model component
compute_risk_penalty_no_diversity(days_inactive, growth_rate, n_models) ==
    LET inactive == IF days_inactive > 14 THEN Pts(4)
                    ELSE IF days_inactive > 7 THEN Frac((days_inactive - 7) * 4, 7)
                    ELSE 0
        declining == IF growth_rate < 0 THEN CapHi(4, Abs(growth_rate), 500) ELSE 0
        penalty == inactive + declining
    IN  Min(Pts(10), penalty)

\* A risk penalty that forgets abs() on the growth rate
compute_risk_penalty_signed(days_inactive, growth_rate, n_models) ==
    LET inactive == IF days_inactive > 14 THEN Pts(4)
                    ELSE IF days_inactive > 7 THEN Frac((days_inactive - 7) * 4, 7)
                    ELSE 0
        declining == IF growth_rate < 0 THEN CapHi(4, growth_rate, 500) ELSE 0
        single == IF n_models <= 1 THEN Pts(2) ELSE 0
        penalty == inactive + declining + single
    IN  Min(Pts(10), penalty)

\* Lines 132-152.  abs(growth_rate) * 20 is |g| / 500 points for g in 1/10^4.
compute_risk_penalty(days_inactive, growth_rate, n_models) ==
    LET inactive == IF days_inactive > 14 THEN Pts(4)
                    ELSE IF days_inactive > 7 THEN Frac((days_inactive - 7) * 4, 7)
                    ELSE 0
        declining == IF growth_rate < 0 THEN CapHi(4, Abs(growth_rate), 500) ELSE 0
        single == IF n_models <= 1 THEN Pts(2) ELSE 0
        penalty == inactive + declining + single
    IN  Min(Pts(10), penalty)

----------------------------------------------------------------------------
(* Composite scorer *)

RECURSIVE FirstMatch(_, _)
FirstMatch(total_score, i) ==
    IF i > Len(STAGE_THRESHOLDS) THEN "At Risk"
    ELSE IF total_score >= Pts(STAGE_THRESHOLDS[i][1]) THEN STAGE_THRESHOLDS[i][2]
    ELSE FirstMatch(total_score, i + 1)

RECURSIVE FirstMatchStrict(_, _)
FirstMatchStrict(total_score, i) ==
    IF i > Len(STAGE_THRESHOLDS) THEN "At Risk"
    ELSE IF total_score > Pts(STAGE_THRESHOLDS[i][1]) THEN STAGE_THRESHOLDS[i][2]
    ELSE FirstMatchStrict(total_score, i + 1)

\* A stage assignment that compares with > instead of >=
AssignStageStrict(total_score) == FirstMatchStrict(total_score, 1)

\* Lines 202-207: the first threshold the score reaches names the stage
AssignStage(total_score) == FirstMatch(total_score, 1)

\* Lines 194-199: the weighted sum of the four categories
RawScore(usage_intensity, production_maturity, team_adoption, cross_channel) ==
    Weigh(usage_intensity, 3, 10) + Weigh(production_maturity, 1, 4)
        + Weigh(team_adoption, 1, 5) + Weigh(cross_channel, 3, 20)

\* A composite that weights the risk penalty like a fifth category (10%)
TotalScoreWeightedPenalty(raw_score, risk_penalty) ==
    Max(0, Min(Pts(100), raw_score - Weigh(risk_penalty, 1, 10)))

\* A composite that forgets the lower clamp
TotalScoreNoFloor(raw_score, risk_penalty) == Min(Pts(100), raw_score - risk_penalty)

\* Line 200: the penalty is subtracted, then the result is clamped to [0, 100]
TotalScore(raw_score, risk_penalty) == Max(0, Min(Pts(100), raw_score - risk_penalty))

\* A scorer that weights users and seats equally in Team Adoption
score_account_locals_even(r) ==
    LET growth_rate == RowGet(r, "computed_growth_rate", RowGet(r, "growth_rate", 0))
        spend_score == normalize_spend_log(r.latest_total_spend)
        growth_score == score_growth(growth_rate)
        request_score == score_daily_requests(r.daily_requests)
        usage_intensity == Weigh(spend_score, 2, 5) + Weigh(growth_score, 2, 5)
                               + Weigh(request_score, 1, 5)
        prod_score == score_prod_ratio(r.prod_ratio)
        error_score == score_error_rate(r.error_rate)
        model_score == score_model_diversity(r.n_models)
        production_maturity == Weigh(prod_score, 2, 5) + Weigh(error_score, 3, 10)
                                   + Weigh(model_score, 3, 10)
        users_score == score_domain_users(r.unique_users)
        seats_score == score_enterprise_seats(r.enterprise_seats)
        team_adoption == Weigh(users_score, 1, 2) + Weigh(seats_score, 1, 2)
        n_channels == RowGet(r, "n_active_channels", RowGet(r, "n_channels", 1))
        cross_channel == score_cross_channel(n_channels, r.marketplace_to_direct)
        risk_penalty == compute_risk_penalty(r.days_inactive, growth_rate, r.n_models)
        raw_score == RawScore(usage_intensity, production_maturity, team_adoption,
                              cross_channel)
        total_score == TotalScore(raw_score, risk_penalty)
    IN  [usage_intensity |-> usage_intensity,
         production_maturity |-> production_maturity,
         team_adoption |-> team_adoption,
         cross_channel |-> cross_channel,
         risk_penalty |-> risk_penalty,
         raw_score |-> raw_score,
         total_score |-> total_score,
         stage |-> AssignStage(total_score)]

\* Lines 165-207: the local variables of score_account when it returns
score_account_locals(r) ==
    LET growth_rate == RowGet(r, "computed_growth_rate", RowGet(r, "growth_rate", 0))
        spend_score == normalize_spend_log(r.latest_total_spend)
        growth_score == score_growth(growth_rate)
        request_score == score_daily_requests(r.daily_requests)
        usage_intensity == Weigh(spend_score, 2, 5) + Weigh(growth_score, 2, 5)
                               + Weigh(request_score, 1, 5)
        prod_score == score_prod_ratio(r.prod_ratio)
        error_score == score_error_rate(r.error_rate)
        model_score == score_model_diversity(r.n_models)
        production_maturity == Weigh(prod_score, 2, 5) + Weigh(error_score, 3, 10)
                                   + Weigh(model_score, 3, 10)
        users_score == score_domain_users(r.unique_users)
        seats_score == score_enterprise_seats(r.enterprise_seats)
        team_adoption == Weigh(users_score, 3, 5) + Weigh(seats_score, 2, 5)
        n_channels == RowGet(r, "n_active_channels", RowGet(r, "n_channels", 1))
        cross_channel == score_cross_channel(n_channels, r.marketplace_to_direct)
        risk_penalty == compute_risk_penalty(r.days_inactive, growth_rate, r.n_models)
        raw_score == RawScore(usage_intensity, production_maturity, team_adoption,
                              cross_channel)
        total_score == TotalScore(raw_score, risk_penalty)
    IN  [usage_intensity |-> usage_intensity,
         production_maturity |-> production_maturity,
         team_adoption |-> team_adoption,
         cross_channel |-> cross_channel,
         risk_penalty |-> risk_penalty,
         raw_score |-> raw_score,
         total_score |-> total_score,
         stage |-> AssignStage(total_score)]

\* Lines 209-217: the dictionary score_account returns (scores in tenths)
score_account(r) ==
    LET l == score_account_locals(r)
    IN  [conversion_score |-> Round1(l.total_score),
         stage |-> l.stage,
         usage_intensity_score |-> Round1(l.usage_intensity),
         production_maturity_score |-> Round1(l.production_maturity),
         team_adoption_score |-> Round1(l.team_adoption),
         cross_channel_score |-> Round1(l.cross_channel),
         risk_penalty |-> Round1(l.risk_penalty)]

----------------------------------------------------------------------------
(* Enriched records scored by the main specification *)

MaxModels == 3

MaxChannels == 4

SpendValues == {0, 50000, MAX_SPEND}

GrowthValues == {-2000, 0, 3000, 5000}

RequestValues == {0, 20000, REQUESTS_CEILING}

ProdRatioValues == {0, 900, 950}

ErrorRateValues == {150, 1000}

UserValues == {0, 12}

SeatValues == {0, 80, 100}

RatioValues == {120, 301}

DaysValues == {2, 10, 15}

EnrichedRows ==
    [latest_total_spend : SpendValues,
     computed_growth_rate : GrowthValues,
     daily_requests : RequestValues,
     prod_ratio : ProdRatioValues,
     error_rate : ErrorRateValues,
     n_models : 0..MaxModels,
     unique_users : UserValues,
     enterprise_seats : SeatValues,
     n_active_channels : 0..MaxChannels,
     marketplace_to_direct : RatioValues,
     days_inactive : DaysValues]

NoCall == [fn |-> "none", args |-> <<>>, ret |-> <<>>]

Init ==
    /\ row \in EnrichedRows
    /\ locals = <<>>
    /\ result = <<>>
    /\ call = NoCall
    /\ pc = "enriched"

\* score_all_accounts line 226: one record is scored
ScoreAccount ==
    /\ pc = "enriched"
    /\ locals' = score_account_locals(row)
    /\ result' = score_account(row)
    /\ pc' = "scored"
    /\ UNCHANGED <<row, call>>

Next == ScoreAccount

Spec == Init /\ [][Next]_vars

----------------------------------------------------------------------------
(* Claims about score_account, checked under Spec *)

Scored == pc = "scored"

Tenth == Den \div 10

\* clamp(x, 0, 100) in points
Clamp100(x) == IF x < 0 THEN 0 ELSE IF x > Pts(100) THEN Pts(100) ELSE x

\* 0.30*Usage + 0.25*Production + 0.20*Team + 0.15*CrossChannel - risk_penalty
\* over the unrounded categories score_account holds when it returns
WeightedLessPenalty ==
    Weigh(locals.usage_intensity, 3, 10) + Weigh(locals.production_maturity, 1, 4)
        + Weigh(locals.team_adoption, 1, 5) + Weigh(locals.cross_channel, 3, 20)
        - locals.risk_penalty

AllCategoriesAre(v) ==
    /\ locals.usage_intensity = v
    /\ locals.production_maturity = v
    /\ locals.team_adoption = v
    /\ locals.cross_channel = v

\* C1: the composite of every scored record is
\* clamp(0.30*U + 0.25*P + 0.20*T + 0.15*C - risk_penalty, 0, 100) over the unrounded
\* categories, the penalty subtracted unweighted; the returned conversion_score is
\* that value rounded to one decimal (a multiple of 0.1 at most 0.05 away from it).
C1_Composite ==
    Scored =>
        /\ locals.total_score = Clamp100(WeightedLessPenalty)
        /\ 2 * Abs(result.conversion_score * Tenth - Clamp100(WeightedLessPenalty)) <= Tenth
        /\ result.usage_intensity_score = Round1(locals.usage_intensity)
        /\ result.production_maturity_score = Round1(locals.production_maturity)
        /\ result.team_adoption_score = Round1(locals.team_adoption)
        /\ result.cross_channel_score = Round1(locals.cross_channel)

\* C1 witness: a scored record with a positive penalty, a positive composite that is
\* not a multiple of 0.1 and a category that is not a multiple of 0.1
C1_Witness ==
    /\ Scored
    /\ locals.risk_penalty > 0
    /\ locals.total_score > 0
    /\ locals.total_score % Tenth # 0
    /\ locals.usage_intensity % Tenth # 0
    /\ result.conversion_score * Tenth # locals.total_score

\* C2 (as claimed): with all four categories at 100 and no risk penalty the
\* composite is 100.
C2_SaturatedIs100 ==
    (Scored /\ AllCategoriesAre(Pts(100)) /\ locals.risk_penalty = 0)
        => locals.total_score = Pts(100)

\* C3: the composite of every scored record lies in [0, 100]; with all four
\* categories at 0 and the maximal penalty of 10 it is exactly 0.
C3_CompositeBounded ==
    Scored =>
        /\ 0 <= locals.total_score /\ locals.total_score <= Pts(100)
        /\ 0 <= result.conversion_score /\ result.conversion_score <= 1000
        /\ (AllCategoriesAre(0) /\ locals.risk_penalty = Pts(10))
               => (locals.total_score = 0 /\ result.conversion_score = 0)

\* C3 witness: all categories 0, penalty 10, so the unclamped value is -10
C3_Witness ==
    /\ Scored
    /\ AllCategoriesAre(0)
    /\ locals.risk_penalty = Pts(10)
    /\ locals.raw_score - locals.risk_penalty = -Pts(10)
    /\ locals.total_score = 0

InDocumentedDomain(r) ==
    /\ r.latest_total_spend >= 0
    /\ r.daily_requests >= 0
    /\ r.prod_ratio >= 0 /\ r.prod_ratio <= 1000
    /\ r.error_rate >= 0
    /\ r.n_models >= 0 /\ r.unique_users >= 0 /\ r.enterprise_seats >= 0
    /\ r.days_inactive >= 0
    /\ r.n_active_channels \in 0..MaxChannels

InScoreRange(x) == 0 <= x /\ x <= Pts(100)

\* C4 (as claimed): for a record in its documented domain (an active-channel count
\* of 0 to 4 included) each of the four category scores lies in [0, 100].
C4_CategoriesBounded ==
    (Scored /\ InDocumentedDomain(row)) =>
        /\ InScoreRange(locals.usage_intensity)
        /\ InScoreRange(locals.production_maturity)
        /\ InScoreRange(locals.team_adoption)
        /\ InScoreRange(locals.cross_channel)

\* The stage the fixed thresholds give a score in tenths
StageOfTenths(t) ==
    IF t >= 780 THEN "Enterprise Ready"
    ELSE IF t >= 630 THEN "High Velocity"
    ELSE IF t >= 480 THEN "Qualified"
    ELSE IF t >= 330 THEN "Nurture"
    ELSE "At Risk"

\* C7 (as claimed): the returned stage is the stage the thresholds assign to the
\* returned conversion_score (78.0 is 'Enterprise Ready', 77.9 is 'High Velocity').
C7_StageOfReturnedScore ==
    Scored => result.stage = StageOfTenths(result.conversion_score)

----------------------------------------------------------------------------
(* Single calls of the pure helpers: call.args holds the arguments, call.ret the *)
(* returned values once pc = "returned"                                          *)

CallsOf(fn, argsSet) == {[fn |-> fn, args |-> a, ret |-> <<>>] : a \in argsSet}

InitCall(fn, argsSet) ==
    /\ row = <<>>
    /\ locals = <<>>
    /\ result = <<>>
    /\ call \in CallsOf(fn, argsSet)
    /\ pc = "call"

Return(values) ==
    /\ call' = [call EXCEPT !.ret = values]
    /\ pc' = "returned"
    /\ UNCHANGED <<row, locals, result>>

Returned(fn) == pc = "returned" /\ call.fn = fn

\* _compute_risk_penalty(days_inactive, growth_rate, n_models)
MaxDays == 16

ExtremeDays == 10000

RiskGrowthValues == {-50000, -2001, -2000, -1999, -1000, -1, 0, 1, 3000}

RiskArgs == ((0..MaxDays) \cup {ExtremeDays}) \X RiskGrowthValues \X (0..MaxModels)

InitRisk == InitCall("compute_risk_penalty", RiskArgs)

CallRiskPenalty ==
    /\ pc = "call"
    /\ call.fn = "compute_risk_penalty"
    /\ Return(<<compute_risk_penalty(call.args[1], call.args[2], call.args[3])>>)

SpecRisk == InitRisk /\ [][CallRiskPenalty]_vars

\* C5: the risk penalty is in [0, 10] for every days_inactive, growth_rate and
\* n_models, however extreme (days_inactive=10000, growth_rate=-5.0, n_models=0
\* included).
C5_RiskPenaltyBounded ==
    Returned("compute_risk_penalty") =>
        (0 <= call.ret[1] /\ call.ret[1] <= Pts(10))

\* C5 witness: the extreme call has returned, with the penalty at its maximum
C5_Witness ==
    /\ Returned("compute_risk_penalty")
    /\ call.args = <<ExtremeDays, -50000, 0>>
    /\ call.ret = <<Pts(10)>>

\* The stage assignment of score_account applied to a composite in [0, 100]
MaxCentis == 10000

StageArgs == {<<Frac(k, 100)>> : k \in 0..MaxCentis}

InitStage == InitCall("AssignStage", StageArgs)

CallAssignStage ==
    /\ pc = "call"
    /\ call.fn = "AssignStage"
    /\ Return(<<AssignStage(call.args[1])>>)

SpecStage == InitStage /\ [][CallAssignStage]_vars

C8_DocstringStages ==
    Returned("AssignStage") =>
        LET t == call.args[1]
            stage == call.ret[1]
        IN  /\ (t >= Pts(85) /\ t <= Pts(100)) => stage = "Enterprise Ready"
            /\ (t >= Pts(70) /\ t <= Pts(84)) => stage = "High Velocity"
            /\ (t >= Pts(55) /\ t <= Pts(69)) => stage = "Qualified"
            /\ (t >= Pts(40) /\ t <= Pts(54)) => stage = "Nurture"
            /\ t < Pts(40) => stage = "At Risk"

\* _score_growth on two non-negative growth rates g1 <= g2
MaxGrowth == 6000

GrowthGaps == {0, 1, 700, 3100}

GrowthArgs == {<<g, g + d>> : g \in 0..MaxGrowth, d \in GrowthGaps}

InitGrowth == InitCall("score_growth", GrowthArgs)

CallScoreGrowth ==
    /\ pc = "call"
    /\ call.fn = "score_growth"
    /\ Return(<<score_growth(call.args[1]), score_growth(call.args[2])>>)

SpecGrowth == InitGrowth /\ [][CallScoreGrowth]_vars

\* The claim's segment formulas, g in 1/10^4: x/0.20*40 and 40+(x-0.20)/0.30*60
LowerSegment(g) == Frac(g * 40, 2000)

MiddleSegment(g) == Pts(40) + Frac((g - 2000) * 60, 3000)

\* C9: on growth >= 0 the growth scorer follows x/0.20*40 on [0,0.20),
\* 40+(x-0.20)/0.30*60 on [0.20,0.50) and 100 from 0.50 on; it is monotonic
\* non-decreasing and continuous (a step of 0.0001 in growth moves the score by at
\* most 0.02, the steepest segment's slope); 0.50 yields exactly 100 and 0.20 yields
\* exactly 40, from both the lower and the middle formula.
C9_GrowthContinuousMonotonic ==
    (Returned("score_growth") /\ call.args[1] >= 0) =>
        LET g1 == call.args[1]
            g2 == call.args[2]
            s1 == call.ret[1]
            s2 == call.ret[2]
        IN  /\ g1 < 2000 => s1 = LowerSegment(g1)
            /\ (g1 >= 2000 /\ g1 < 5000) => s1 = MiddleSegment(g1)
            /\ g1 >= 5000 => s1 = Pts(100)
            /\ g1 <= g2 => s1 <= s2
            /\ g2 = g1 + 1 => s2 - s1 <= Frac(1, 50)
            /\ g1 = 5000 => (s1 = Pts(100) /\ MiddleSegment(g1) = Pts(100))
            /\ g1 = 2000 =>
                   (s1 = Pts(40) /\ LowerSegment(g1) = Pts(40) /\ MiddleSegment(g1) = Pts(40))

\* C9 witness: the scorer has been applied just below and at the 0.20 boundary
C9_Witness ==
    /\ Returned("score_growth")
    /\ call.args = <<1999, 2000>>
    /\ call.ret = <<Pts(40) - Frac(1, 50), Pts(40)>>

\* _score_cross_channel(n_channels, marketplace_to_direct)
MaxProbeChannels == 5

MaxRatio == 400

SentinelRatio == 9900

CrossArgs == (0..MaxProbeChannels) \X ((0..MaxRatio) \cup {SentinelRatio})

InitCross == InitCall("score_cross_channel", CrossArgs)

CallScoreCrossChannel ==
    /\ pc = "call"
    /\ call.fn = "score_cross_channel"
    /\ Return(<<score_cross_channel(call.args[1], call.args[2])>>)

SpecCross == InitCross /\ [][CallScoreCrossChannel]_vars

\* min(100, x) over whole points
Cap100(x) == IF x > 100 THEN 100 ELSE x

\* C10: the cross-channel score is base = min(100, (channels-1)*40), raised to
\* min(100, base+20) only when marketplace_to_direct > 3.0: without the bonus 1
\* channel gives 0, 4 channels give 100 with or without it, 2 channels give 60 at a
\* ratio of 3.01 and 40 at exactly 3.0.
C10_CrossChannel ==
    Returned("score_cross_channel") =>
        LET n == call.args[1]
            ratio == call.args[2]
            base == Cap100((n - 1) * 40)
            score == call.ret[1]
        IN  /\ ratio > 300 => score = Pts(Cap100(base + 20))
            /\ ratio <= 300 => score = Pts(base)
            /\ (n = 1 /\ ratio <= 300) => score = 0
            /\ n = 4 => score = Pts(100)
            /\ (n = 2 /\ ratio = 301) => score = Pts(60)
            /\ (n = 2 /\ ratio = 300) => score = Pts(40)

\* C10 witness: 2 channels at a ratio of 3.01 have been scored 60
C10_Witness ==
    /\ Returned("score_cross_channel")
    /\ call.args = <<2, 301>>
    /\ call.ret = <<Pts(60)>>

----------------------------------------------------------------------------
(* Action engine: get_recommended_action *)

\* A recommendation whose 'High Velocity' branch tests unique_users instead of
\* enterprise_seats
get_recommended_action_users(r) ==
    LET stage == r.stage
    IN  IF stage = "Enterprise Ready"
        THEN "Route to AE for enterprise contract discussion"
        ELSE IF stage = "High Velocity"
        THEN IF r.unique_users = 0
             THEN "Introduce Claude for Enterprise; schedule product demo"
             ELSE "Monitor for trigger event; prepare custom pricing proposal"
        ELSE IF stage = "Qualified"
        THEN IF r.n_models <= 1
             THEN "Share multi-model use case guide; suggest Sonnet for cost optimization"
             ELSE IF r.prod_ratio < 600
             THEN "Offer production deployment support; share best practices"
             ELSE "Assign SDR for discovery call; share enterprise case studies"
        ELSE IF stage = "Nurture"
        THEN IF RowGet(r, "computed_growth_rate", RowGet(r, "growth_rate", 0)) < 0
             THEN "Trigger re-engagement campaign; offer office hours"
             ELSE "Add to nurture sequence; share relevant content"
        ELSE IF r.days_inactive > 14
             THEN "CSM outreach: check-in call to understand blockers"
             ELSE "CSM intervention: identify churn risk factors"

\* A recommendation whose 'Qualified' branch tests prod_ratio before n_models
get_recommended_action_swapped(r) ==
    LET stage == r.stage
    IN  IF stage = "Enterprise Ready"
        THEN "Route to AE for enterprise contract discussion"
        ELSE IF stage = "High Velocity"
        THEN IF r.enterprise_seats = 0
             THEN "Introduce Claude for Enterprise; schedule product demo"
             ELSE "Monitor for trigger event; prepare custom pricing proposal"
        ELSE IF stage = "Qualified"
        THEN IF r.prod_ratio < 600
             THEN "Offer production deployment support; share best practices"
             ELSE IF r.n_models <= 1
             THEN "Share multi-model use case guide; suggest Sonnet for cost optimization"
             ELSE "Assign SDR for discovery call; share enterprise case studies"
        ELSE IF stage = "Nurture"
        THEN IF RowGet(r, "computed_growth_rate", RowGet(r, "growth_rate", 0)) < 0
             THEN "Trigger re-engagement campaign; offer office hours"
             ELSE "Add to nurture sequence; share relevant content"
        ELSE IF r.days_inactive > 14
             THEN "CSM outreach: check-in call to understand blockers"
             ELSE "CSM intervention: identify churn risk factors"

\* Lines 234-256 (prod_ratio in 1/1000, growth in 1/10^4)
get_recommended_action(r) ==
    LET stage == r.stage
    IN  IF stage = "Enterprise Ready"
        THEN "Route to AE for enterprise contract discussion"
        ELSE IF stage = "High Velocity"
        THEN IF r.enterprise_seats = 0
             THEN "Introduce Claude for Enterprise; schedule product demo"
             ELSE "Monitor for trigger event; prepare custom pricing proposal"
        ELSE IF stage = "Qualified"
        THEN IF r.n_models <= 1
             THEN "Share multi-model use case guide; suggest Sonnet for cost optimization"
             ELSE IF r.prod_ratio < 600
             THEN "Offer production deployment support; share best practices"
             ELSE "Assign SDR for discovery call; share enterprise case studies"
        ELSE IF stage = "Nurture"
        THEN IF RowGet(r, "computed_growth_rate", RowGet(r, "growth_rate", 0)) < 0
             THEN "Trigger re-engagement campaign; offer office hours"
             ELSE "Add to nurture sequence; share relevant content"
        ELSE IF r.days_inactive > 14
             THEN "CSM outreach: check-in call to understand blockers"
             ELSE "CSM intervention: identify churn risk factors"

\* Scored records the dashboard asks a recommendation for, two at a time
ActionRows ==
    [stage : Stages,
     enterprise_seats : {0, 80},
     n_models : {1, 2},
     prod_ratio : {599, 600},
     computed_growth_rate : {-1, 0, 1},
     days_inactive : {14, 15},
     unique_users : {0, 12}]

ActionArgs == ActionRows \X ActionRows

InitAction == InitCall("get_recommended_action", ActionArgs)

CallRecommendedAction ==
    /\ pc = "call"
    /\ call.fn = "get_recommended_action"
    /\ Return(<<get_recommended_action(call.args[1]), get_recommended_action(call.args[2])>>)

SpecAction == InitAction /\ [][CallRecommendedAction]_vars

\* The branch conditions the claim lists, in the claim's order
ClaimedAction(r) ==
    CASE r.stage = "Enterprise Ready" ->
             "Route to AE for enterprise contract discussion"
      [] r.stage = "High Velocity" /\ r.enterprise_seats = 0 ->
             "Introduce Claude for Enterprise; schedule product demo"
      [] r.stage = "High Velocity" /\ r.enterprise_seats # 0 ->
             "Monitor for trigger event; prepare custom pricing proposal"
      [] r.stage = "Qualified" /\ r.n_models <= 1 ->
             "Share multi-model use case guide; suggest Sonnet for cost optimization"
      [] r.stage = "Qualified" /\ r.n_models > 1 /\ r.prod_ratio < 600 ->
             "Offer production deployment support; share best practices"
      [] r.stage = "Qualified" /\ r.n_models > 1 /\ r.prod_ratio >= 600 ->
             "Assign SDR for discovery call; share enterprise case studies"
      [] r.stage = "Nurture" /\ r.computed_growth_rate < 0 ->
             "Trigger re-engagement campaign; offer office hours"
      [] r.stage = "Nurture" /\ r.computed_growth_rate >= 0 ->
             "Add to nurture sequence; share relevant content"
      [] r.stage = "At Risk" /\ r.days_inactive > 14 ->
             "CSM outreach: check-in call to understand blockers"
      [] r.stage = "At Risk" /\ r.days_inactive <= 14 ->
             "CSM intervention: identify churn risk factors"

\* C11: get_recommended_action returns exactly one action per record, the one of
\* the first matching condition of the record's stage: 'Enterprise Ready' always
\* the AE; 'High Velocity' on enterprise_seats == 0; 'Qualified' on n_models <= 1
\* first, then prod_ratio < 0.6, then the default; 'Nurture' on growth < 0;
\* 'At Risk' on days_inactive > 14.
C11_FirstMatchingAction ==
    Returned("get_recommended_action") =>
        /\ Len(call.ret) = 2
        /\ call.ret[1] = ClaimedAction(call.args[1])
        /\ call.ret[2] = ClaimedAction(call.args[2])

\* C11 witness: a 'Qualified' record with n_models <= 1 and prod_ratio < 0.6 got
\* the multi-model action
C11_Witness ==
    /\ Returned("get_recommended_action")
    /\ call.args[1].stage = "Qualified"
    /\ call.args[1].n_models <= 1
    /\ call.args[1].prod_ratio < 600
    /\ call.ret[1] = "Share multi-model use case guide; suggest Sonnet for cost optimization"

SameOn(r1, r2, fields) == \A f \in fields : r1[f] = r2[f]

\* C12 (as claimed): two records that agree on stage, enterprise_seats,
\* days_inactive, prod_ratio and n_models get the same action, whatever their
\* growth rate.
C12_ActionIgnoresGrowth ==
    (Returned("get_recommended_action")
        /\ SameOn(call.args[1], call.args[2],
                  {"stage", "enterprise_seats", "days_inactive", "prod_ratio", "n_models"}))
        => call.ret[1] = call.ret[2]

\* C12 (amended): two records that agree on stage, enterprise_seats,
\* days_inactive, prod_ratio, n_models and the growth rate get the same action,
\* whatever their other fields.
C12_ActionDependsOnListedAndGrowth ==
    (Returned("get_recommended_action")
        /\ SameOn(call.args[1], call.args[2],
                  {"stage", "enterprise_seats", "days_inactive", "prod_ratio", "n_models",
                   "computed_growth_rate"}))
        => call.ret[1] = call.ret[2]

\* C12 witness: two records that differ only in a field outside the list
\* (unique_users) got the same action
C12_Witness ==
    /\ Returned("get_recommended_action")
    /\ call.args[1].unique_users # call.args[2].unique_users
    /\ call.args[1].stage = "High Velocity"
    /\ SameOn(call.args[1], call.args[2],
              {"stage", "enterprise_seats", "days_inactive", "prod_ratio", "n_models",
               "computed_growth_rate"})
    /\ call.ret[1] = call.ret[2]

----------------------------------------------------------------------------
(* Action engine: get_action_explanation *)

\* Lines 265-270: the keys of the categories dict, in insertion order
CategoryOrder == <<"Usage Intensity", "Production Maturity", "Team Adoption", "Cross-Channel">>

\* Lines 265-270: the categories dict of a scored record (scores in tenths)
Categories(r) ==
    [c \in {CategoryOrder[i] : i \in 1..Len(CategoryOrder)} |->
        CASE c = "Usage Intensity" -> r.usage_intensity_score
          [] c = "Production Maturity" -> r.production_maturity_score
          [] c = "Team Adoption" -> r.team_adoption_score
          [] c = "Cross-Channel" -> r.cross_channel_score]

\* max(categories, key=categories.get): the keys are visited in insertion order and
\* the held key is replaced only by a strictly larger value
RECURSIVE MaxFrom(_, _, _)
MaxFrom(categories, i, best) ==
    IF i > Len(CategoryOrder) THEN best
    ELSE IF categories[CategoryOrder[i]] > categories[best]
         THEN MaxFrom(categories, i + 1, CategoryOrder[i])
         ELSE MaxFrom(categories, i + 1, best)

\* min(categories, key=categories.get), likewise with strictly smaller
RECURSIVE MinFrom(_, _, _)
MinFrom(categories, i, best) ==
    IF i > Len(CategoryOrder) THEN best
    ELSE IF categories[CategoryOrder[i]] < categories[best]
         THEN MinFrom(categories, i + 1, CategoryOrder[i])
         ELSE MinFrom(categories, i + 1, best)

RECURSIVE MaxFromLast(_, _, _)
MaxFromLast(categories, i, best) ==
    IF i > Len(CategoryOrder) THEN best
    ELSE IF categories[CategoryOrder[i]] >= categories[best]
         THEN MaxFromLast(categories, i + 1, CategoryOrder[i])
         ELSE MaxFromLast(categories, i + 1, best)

\* A selection that lets a later category win a tie for the maximum
StrongestLast(categories) == MaxFromLast(categories, 2, CategoryOrder[1])

\* Line 271
Strongest(categories) == MaxFrom(categories, 2, CategoryOrder[1])

\* Line 272
Weakest(categories) == MinFrom(categories, 2, CategoryOrder[1])

\* f"{x:.0f}" of a score in tenths: the nearest whole number, ties to even
Fmt0(x) ==
    LET q == x \div 10
        r == x % 10
    IN  IF r > 5 THEN q + 1
        ELSE IF r < 5 THEN q
        ELSE IF q % 2 = 0 THEN q ELSE q + 1

\* f"{growth:+.0%}" of a growth rate in 1/10^4: whole percent, ties to even
FmtPct(g) ==
    LET q == g \div 100
        r == g % 100
    IN  IF r > 50 THEN q + 1
        ELSE IF r < 50 THEN q
        ELSE IF q % 2 = 0 THEN q ELSE q + 1

\* Lines 259-301.  Each sentence is <<its fixed text, the values formatted into it>>.
get_action_explanation(r) ==
    LET stage == r.stage
        categories == Categories(r)
        strongest == Strongest(categories)
        weakest == Weakest(categories)
        growth == RowGet(r, "computed_growth_rate", RowGet(r, "growth_rate", 0))
        parts ==
            IF stage = "Enterprise Ready"
            THEN << <<"Strong across all dimensions (strongest: {} at {}/100).",
                      strongest, Fmt0(categories[strongest])>>,
                    <<"High spend, multi-channel presence, and strong team adoption signal enterprise buying intent.">> >>
            ELSE IF stage = "High Velocity"
            THEN << <<"Strongest signal: {} ({}/100).", strongest, Fmt0(categories[strongest])>>,
                    IF categories[weakest] < 500
                    THEN <<"Opportunity: {} is at {}/100 - addressing this could accelerate conversion.",
                           weakest, Fmt0(categories[weakest])>>
                    ELSE <<"Approaching enterprise threshold across multiple dimensions.">> >>
            ELSE IF stage = "Qualified"
            THEN << <<"{} leads at {}/100.", strongest, Fmt0(categories[strongest])>>,
                    <<"Focus on improving {} ({}/100) to move this account up-funnel.",
                      weakest, Fmt0(categories[weakest])>> >>
            ELSE IF stage = "Nurture"
            THEN << IF growth > 0
                    THEN <<"Positive growth trajectory ({}) but early-stage across most signals.",
                           FmtPct(growth)>>
                    ELSE <<"Flat or declining usage ({}). Needs re-engagement to prevent churn.",
                           FmtPct(growth)>>,
                    <<"Best signal: {} at {}/100.", strongest, Fmt0(categories[strongest])>> >>
            ELSE (IF r.days_inactive > 7
                  THEN << <<"Inactive for {} days - potential churn risk.", r.days_inactive>> >>
                  ELSE <<>>)
                 \o (IF growth < -1000
                     THEN << <<"Usage is declining significantly.">> >>
                     ELSE <<>>)
                 \o << <<"All scoring categories are below threshold (best: {} at {}/100).",
                         strongest, Fmt0(categories[strongest])>> >>
    IN  [strongest |-> strongest, weakest |-> weakest, parts |-> parts]

\* Scored records the dashboard asks an explanation for
CategoryScoreValues == {400, 500, 725}

ExplainRows ==
    [stage : Stages,
     usage_intensity_score : CategoryScoreValues,
     production_maturity_score : CategoryScoreValues,
     team_adoption_score : CategoryScoreValues,
     cross_channel_score : CategoryScoreValues,
     computed_growth_rate : {-1001, -1000, 0, 1},
     days_inactive : {7, 8},
     risk_penalty : {17}]

ExplainArgs == {<<r>> : r \in ExplainRows}

InitExplain == InitCall("get_action_explanation", ExplainArgs)

CallActionExplanation ==
    /\ pc = "call"
    /\ call.fn = "get_action_explanation"
    /\ Return(<<get_action_explanation(call.args[1])>>)

SpecExplain == InitExplain /\ [][CallActionExplanation]_vars

\* The score of the i-th category of the declared order in record r
ScoreAt(r, i) ==
    CASE i = 1 -> r.usage_intensity_score
      [] i = 2 -> r.production_maturity_score
      [] i = 3 -> r.team_adoption_score
      [] i = 4 -> r.cross_channel_score

DeclaredName(i) ==
    CASE i = 1 -> "Usage Intensity"
      [] i = 2 -> "Production Maturity"
      [] i = 3 -> "Team Adoption"
      [] i = 4 -> "Cross-Channel"

\* C13: 'strongest' is a category with the maximum sub-score and 'weakest' one with
\* the minimum; among categories tied for the maximum (the minimum) the earliest in
\* the order Usage Intensity, Production Maturity, Team Adoption, Cross-Channel is
\* chosen, so with four equal scores both are Usage Intensity.
C13_StrongestWeakestTieBreak ==
    Returned("get_action_explanation") =>
        LET r == call.args[1]
            e == call.ret[1]
        IN  /\ \E i \in 1..4 :
                   /\ e.strongest = DeclaredName(i)
                   /\ \A j \in 1..4 : ScoreAt(r, j) <= ScoreAt(r, i)
                   /\ \A j \in 1..(i - 1) : ScoreAt(r, j) < ScoreAt(r, i)
            /\ \E i \in 1..4 :
                   /\ e.weakest = DeclaredName(i)
                   /\ \A j \in 1..4 : ScoreAt(r, j) >= ScoreAt(r, i)
                   /\ \A j \in 1..(i - 1) : ScoreAt(r, j) > ScoreAt(r, i)
            /\ (\A j \in 1..4 : ScoreAt(r, j) = ScoreAt(r, 1)) =>
                   (e.strongest = "Usage Intensity" /\ e.weakest = "Usage Intensity")

\* C13 witness: four equal scores were explained with Usage Intensity as both the
\* strongest and the weakest category
C13_Witness ==
    /\ Returned("get_action_explanation")
    /\ \A j \in 1..4 : ScoreAt(call.args[1], j) = 500
    /\ call.ret[1].strongest = "Usage Intensity"
    /\ call.ret[1].weakest = "Usage Intensity"

----------------------------------------------------------------------------
(* Signal extractor (analytics/signals.py).                                 *)
(* A DataFrame is the sequence of its rows, a row a record.  A growth rate  *)
(* derived from the usage history is an integer count of 1/10^5, or one of  *)
(* the float values INF and NAN; products are truncated to 1/10^5.          *)

INF == 2^30

NAN == -(2^30)

Rate == 10^5

\* A filter that keeps every row, whatever its account
RowsOfAnyAccount(df, account_id) == df

\* df[df["account_id"] == account_id]: the matching rows, in order
RECURSIVE RowsOf(_, _)
RowsOf(df, account_id) ==
    IF df = <<>> THEN <<>>
    ELSE IF Head(df).account_id = account_id
         THEN <<Head(df)>> \o RowsOf(Tail(df), account_id)
         ELSE RowsOf(Tail(df), account_id)

\* A selection that takes the usage rows of every account
AccountDataUnfiltered(monthly_usage_df, account_id) == monthly_usage_df

\* Line 16
AccountData(monthly_usage_df, account_id) == RowsOf(monthly_usage_df, account_id)

RECURSIVE SumSpend(_, _)
SumSpend(rows, month_idx) ==
    IF rows = <<>> THEN 0
    ELSE (IF Head(rows).month_idx = month_idx THEN Head(rows).spend ELSE 0)
             + SumSpend(Tail(rows), month_idx)

RECURSIVE Ascending(_)
Ascending(S) ==
    IF S = {} THEN <<>>
    ELSE LET m == CHOOSE x \in S : \A y \in S : x <= y
         IN  <<m>> \o Ascending(S \ {m})

\* Lines 20-24: groupby("month_idx")["spend"].sum().sort_index()
MonthlyTotals(account_data) ==
    LET months == Ascending({account_data[i].month_idx : i \in 1..Len(account_data)})
    IN  [i \in 1..Len(months) |-> SumSpend(account_data, months[i])]

\* A tail that keeps the whole series
TailAll(s, n) == s

\* Line 30: Series.tail(n)
TailN(s, n) == IF Len(s) <= n THEN s ELSE SubSeq(s, Len(s) - n + 1, Len(s))

\* One element of Series.pct_change(): cur / prev - 1 in floating point
PctChange(prev, cur) ==
    IF prev = 0 THEN (IF cur = 0 THEN NAN ELSE INF)
    ELSE ((cur - prev) * Rate) \div prev

\* Line 31: pct_change().dropna(): the first element and every NaN are dropped
RECURSIVE DropNa(_)
DropNa(s) ==
    IF s = <<>> THEN <<>>
    ELSE IF Head(s) = NAN THEN DropNa(Tail(s))
    ELSE <<Head(s)>> \o DropNa(Tail(s))

GrowthRates(recent) ==
    DropNa([i \in 1..(Len(recent) - 1) |-> PctChange(recent[i], recent[i + 1])])

RECURSIVE SumSeq(_)
SumSeq(s) == IF s = <<>> THEN 0 ELSE Head(s) + SumSeq(Tail(s))

\* Line 37: Series.mean() of a non-empty series without NaN
Mean(s) ==
    IF \E i \in 1..Len(s) : s[i] = INF THEN INF
    ELSE SumSeq(s) \div Len(s)

\* a * b for a, b >= 0 in 1/10^5, truncated
FMul(a, b) ==
    (a \div Rate) * b
        + ((a % Rate) * (b \div 1000)) \div 100
        + ((a % Rate) * (b % 1000)) \div Rate

\* Line 38: (1 + avg_mom) ** 12 - 1
Annualize(avg_mom) ==
    IF avg_mom = INF THEN INF
    ELSE LET x == Rate + avg_mom
             x2 == FMul(x, x)
             x4 == FMul(x2, x2)
             x8 == FMul(x4, x4)
         IN  FMul(x8, x4) - Rate

\* Lines 11-39 (result in 1/10^5, or INF)
compute_growth_rate(monthly_usage_df, account_id) ==
    LET account_data == AccountData(monthly_usage_df, account_id)
        monthly_totals == MonthlyTotals(account_data)
        recent == TailN(monthly_totals, 4)
        growth_rates == GrowthRates(recent)
    IN  IF account_data = <<>> THEN 0
        ELSE IF Len(monthly_totals) < 2 THEN 0
        ELSE IF growth_rates = <<>> THEN 0
        ELSE Annualize(Mean(growth_rates))

\* Lines 42-47 (prod_ratio in 1/1000)
compute_production_ratio(accounts_df, account_id) ==
    LET r == RowsOf(accounts_df, account_id)
    IN  IF r = <<>> THEN 0 ELSE r[1].prod_ratio

\* Lines 50-55
compute_model_diversity(accounts_df, account_id) ==
    LET r == RowsOf(accounts_df, account_id)
    IN  IF r = <<>> THEN 0 ELSE r[1].n_models

\* Lines 58-63
compute_domain_users(accounts_df, account_id) ==
    LET r == RowsOf(accounts_df, account_id)
    IN  IF r = <<>> THEN 0 ELSE r[1].unique_users

\* Lines 66-81
compute_cross_channel_spend(accounts_df, account_id) ==
    LET r == RowsOf(accounts_df, account_id)
    IN  IF r = <<>>
        THEN [direct |-> 0, bedrock |-> 0, vertex |-> 0, seats |-> 0, total |-> 0]
        ELSE [direct |-> r[1].latest_direct_spend,
              bedrock |-> r[1].latest_bedrock_spend,
              vertex |-> r[1].latest_vertex_spend,
              seats |-> r[1].latest_seat_spend,
              total |-> r[1].latest_total_spend]

NOT_FOUND_DAYS == 999

\* Lines 84-89
compute_days_inactive(accounts_df, account_id) ==
    LET r == RowsOf(accounts_df, account_id)
    IN  IF r = <<>> THEN NOT_FOUND_DAYS ELSE r[1].days_inactive

\* sum([...]) of booleans
CountTrue(bools) == Cardinality({i \in 1..Len(bools) : bools[i]})

\* A count that takes a channel with spend exactly 0 as active
ActiveChannelsGe(channel_spend) ==
    CountTrue(<<channel_spend.direct >= 0, channel_spend.bedrock >= 0,
                channel_spend.vertex >= 0, channel_spend.seats >= 0>>)

\* Lines 103-108
ActiveChannels(channel_spend) ==
    CountTrue(<<channel_spend.direct > 0, channel_spend.bedrock > 0,
                channel_spend.vertex > 0, channel_spend.seats > 0>>)

\* hi + low/100 rounded to a whole number, ties to even
RoundHundredths(hi, low) ==
    LET q == hi + (low \div 100)
        r == low % 100
    IN  IF r > 50 THEN q + 1
        ELSE IF r < 50 THEN q
        ELSE IF q % 2 = 0 THEN q ELSE q + 1

\* A blend with the weights exchanged
BlendGrowthSwapped(stored_growth, growth) ==
    IF growth = INF THEN INF
    ELSE RoundHundredths(7 * (growth \div 100), 7 * (growth % 100) + 30 * stored_growth)

\* Lines 112-117: round(stored_growth * 0.7 + growth * 0.3, 4), stored_growth in
\* 1/10^4, growth in 1/10^5, result in 1/10^4.  In 1/10^6 the sum is
\* 70 * stored_growth + 3 * growth.
BlendGrowth(stored_growth, growth) ==
    IF growth = INF THEN INF
    ELSE RoundHundredths(3 * (growth \div 100), 3 * (growth % 100) + 70 * stored_growth)

\* Lines 98-123: the signals of one row of accounts_df
SignalsOf(accounts_df, monthly_usage_df, r) ==
    LET aid == r.account_id
        growth == compute_growth_rate(monthly_usage_df, aid)
        channel_spend == compute_cross_channel_spend(accounts_df, aid)
    IN  [account_id |-> aid,
         computed_growth_rate |-> BlendGrowth(r.growth_rate, growth),
         n_active_channels |-> ActiveChannels(channel_spend),
         channel_direct |-> channel_spend.direct,
         channel_bedrock |-> channel_spend.bedrock,
         channel_vertex |-> channel_spend.vertex,
         channel_seats |-> channel_spend.seats]

\* One merged row: the columns of both sides
JoinRows(l, r) ==
    [f \in DOMAIN l \cup DOMAIN r |-> IF f \in DOMAIN l THEN l[f] ELSE r[f]]

\* A merge without a key: every left row meets every right row
MergeCross(left, right) ==
    [k \in 1..(Len(left) * Len(right)) |->
        JoinRows(left[((k - 1) \div Len(right)) + 1], right[((k - 1) % Len(right)) + 1])]

RECURSIVE MergeLeft(_, _)
\* left.merge(right, on="account_id", how="left"): the left order is kept, a left
\* row gives one output row per right row with its account_id, and stays alone
\* when there is none
MergeLeft(left, right) ==
    IF left = <<>> THEN <<>>
    ELSE LET l == Head(left)
             matches == RowsOf(right, l.account_id)
         IN  (IF matches = <<>> THEN <<l>>
              ELSE [i \in 1..Len(matches) |-> JoinRows(l, matches[i])])
             \o MergeLeft(Tail(left), right)

\* Lines 92-126
compute_all_signals(accounts_df, monthly_usage_df) ==
    LET signals_df == [i \in 1..Len(accounts_df) |->
                          SignalsOf(accounts_df, monthly_usage_df, accounts_df[i])]
    IN  MergeLeft(accounts_df, signals_df)

\* scoring.py lines 224-229: the result of one row, tagged with its account_id
ScoresOf(r) == JoinRows([account_id |-> r.account_id], score_account(r))

\* scoring.py lines 220-231
score_all_accounts(enriched_df) ==
    LET scores_df == [i \in 1..Len(enriched_df) |-> ScoresOf(enriched_df[i])]
    IN  MergeLeft(enriched_df, scores_df)

\* A ratio computed without the guard: x / 0 is infinite
marketplace_to_direct_unguarded(marketplace_spend, direct_spend) ==
    IF direct_spend /= 0
    THEN LET q == (marketplace_spend * 100) \div direct_spend
             r == (marketplace_spend * 100) % direct_spend
         IN  IF 2 * r > direct_spend THEN q + 1
             ELSE IF 2 * r < direct_spend THEN q
             ELSE IF q % 2 = 0 THEN q ELSE q + 1
    ELSE IF marketplace_spend = 0 THEN NAN ELSE INF

\* generator.py lines 217-222: round(marketplace_spend / direct_spend, 2) in 1/100.
\* A quotient halfway between two hundredths is rounded to the even one, which is
\* what round() does when the quotient is exact in binary (a multiple of 1/8).
marketplace_to_direct(marketplace_spend, direct_spend) ==
    IF direct_spend > 0
    THEN LET q == (marketplace_spend * 100) \div direct_spend
             r == (marketplace_spend * 100) % direct_spend
         IN  IF 2 * r > direct_spend THEN q + 1
             ELSE IF 2 * r < direct_spend THEN q
             ELSE IF q % 2 = 0 THEN q ELSE q + 1
    ELSE SentinelRatio

----------------------------------------------------------------------------
(* The tables of app.py load_data(): accounts and their monthly usage        *)

AccountIds == {"ACC-1", "ACC-2"}

\* <<direct, bedrock, vertex, seat>> spend of the latest month, in dollars
ChannelSpends ==
    { <<0, 0, 0, 0>>,
      <<500, 0, 0, 0>>,
      <<500, 500, 0, 0>>,
      <<500, 300, 200, 0>>,
      <<5000, 3000, 1700, 300>> }

StoredGrowthValues == {-500, 1000}

\* generator.py lines 225-253: the columns of one account the pipeline reads
AccountRow(account_id, spends, growth_rate) ==
    [account_id |-> account_id,
     enterprise_seats |-> spends[4] \div 30,
     latest_direct_spend |-> spends[1],
     latest_bedrock_spend |-> spends[2],
     latest_vertex_spend |-> spends[3],
     latest_seat_spend |-> spends[4],
     latest_total_spend |-> spends[1] + spends[2] + spends[3] + spends[4],
     growth_rate |-> growth_rate,
     prod_ratio |-> 600,
     error_rate |-> 150,
     n_models |-> 2,
     unique_users |-> 5,
     daily_requests |-> 1000,
     days_inactive |-> 3,
     marketplace_to_direct |-> marketplace_to_direct(spends[2] + spends[3], spends[1])]

AccountRows(account_id) ==
    {AccountRow(account_id, s, g) : s \in ChannelSpends, g \in StoredGrowthValues}

\* Batches of accounts with distinct identifiers, in every order
AccountBatches ==
    UNION {{<<r>> : r \in AccountRows(a)} : a \in AccountIds}
        \cup {<<r1, r2>> : r1 \in AccountRows("ACC-1"), r2 \in AccountRows("ACC-2")}
        \cup {<<r2, r1>> : r1 \in AccountRows("ACC-1"), r2 \in AccountRows("ACC-2")}

MaxHistory == 2

MonthValues == {0, 1}

MonthlySpendValues == {100, 102}

\* generator.py lines 263-277: one usage record (the columns compute_growth_rate reads)
UsageRows == [account_id : AccountIds, month_idx : MonthValues, spend : MonthlySpendValues]

SeqsUpTo(S, n) == UNION {[1..k -> S] : k \in 0..n}

UsageTables == SeqsUpTo(UsageRows, MaxHistory)

PipelineArgs == AccountBatches \X UsageTables

InitPipeline == InitCall("load_data", PipelineArgs)

\* app.py line 31
ComputeAllSignals ==
    /\ pc = "call"
    /\ call.fn = "load_data"
    /\ call' = [call EXCEPT !.ret = <<compute_all_signals(call.args[1], call.args[2])>>]
    /\ pc' = "enriched"
    /\ UNCHANGED <<row, locals, result>>

\* app.py line 32
ScoreAllAccounts ==
    /\ pc = "enriched"
    /\ call.fn = "load_data"
    /\ Return(<<call.ret[1], score_all_accounts(call.ret[1])>>)

NextPipeline == ComputeAllSignals \/ ScoreAllAccounts

SpecPipeline == InitPipeline /\ [][NextPipeline]_vars

----------------------------------------------------------------------------
(* Claims about the batch pipeline, checked under SpecPipeline *)

Reverse(s) == [i \in 1..Len(s) |-> s[Len(s) + 1 - i]]

RowSet(df) == {df[i] : i \in 1..Len(df)}

\* C14: for a batch with distinct identifiers score_all_accounts returns exactly
\* one row per account, made of that account's own input row and its own Score
\* Result, and the set of rows is the same when the accounts are scored in the
\* opposite order.
C14_OneResultPerAccount ==
    Returned("load_data") =>
        LET enriched_df == call.ret[1]
            scored == call.ret[2]
        IN  /\ Len(scored) = Len(enriched_df)
            /\ \A i \in 1..Len(scored) :
                   scored[i] = JoinRows(enriched_df[i], score_account(enriched_df[i]))
            /\ \A a \in {enriched_df[i].account_id : i \in 1..Len(enriched_df)} :
                   Cardinality({i \in 1..Len(scored) : scored[i].account_id = a}) = 1
            /\ RowSet(score_all_accounts(Reverse(enriched_df))) = RowSet(scored)

\* Two accounts with different scores, scored in descending identifier order
C14_Witness ==
    /\ Returned("load_data")
    /\ Len(call.ret[2]) = 2
    /\ call.ret[2][1].account_id = "ACC-2"
    /\ call.ret[2][1].conversion_score /= call.ret[2][2].conversion_score

\* The rows of a table that carry one identifier
Only(df, account_id) == SelectSeq(df, LAMBDA r : r.account_id = account_id)

\* The pipeline run on one account alone, with its own usage rows only
AloneResult(account, monthly_usage_df) ==
    score_all_accounts(
        compute_all_signals(<<account>>, Only(monthly_usage_df, account.account_id)))[1]

\* C15: an account's enriched fields and Score Result depend only on its own
\* record and its own usage rows: in every batch the pipeline gives an account
\* the row (computed_growth_rate, active-channel count, category scores,
\* composite, stage) it gives that account when it is processed alone with the
\* usage rows that carry its identifier.
C15_OwnRecordAndHistoryOnly ==
    Returned("load_data") =>
        \A i \in 1..Len(call.args[1]) :
            call.ret[2][i] = AloneResult(call.args[1][i], call.args[2])

\* Two accounts, each with a usage row, the rows together spanning two months
C15_Witness ==
    /\ Returned("load_data")
    /\ Len(call.args[1]) = 2
    /\ Len(call.args[2]) = 2
    /\ call.args[2][1].account_id /= call.args[2][2].account_id
    /\ call.args[2][1].month_idx < call.args[2][2].month_idx
    /\ call.args[2][1].spend < call.args[2][2].spend
    /\ call.args[1][1] /= [call.args[1][2] EXCEPT !.account_id = call.args[1][1].account_id]

----------------------------------------------------------------------------
(* The per-account lookups of signals.py called on their own                *)

LookupIds == AccountIds \cup {"ACC-9"}

UsageSpendValues == {0, 100, 102}

\* Usage records as a caller may pass them, a month without spend included
AnyUsageRows == [account_id : AccountIds, month_idx : MonthValues, spend : UsageSpendValues]

GrowthRateArgs == SeqsUpTo(AnyUsageRows, MaxHistory) \X LookupIds

AccountTables == {<<>>} \cup AccountBatches

LookupArgs == AccountTables \X LookupIds

InitLookup ==
    \/ InitCall("compute_growth_rate", GrowthRateArgs)
    \/ InitCall("compute_production_ratio", LookupArgs)
    \/ InitCall("compute_model_diversity", LookupArgs)
    \/ InitCall("compute_domain_users", LookupArgs)
    \/ InitCall("compute_cross_channel_spend", LookupArgs)
    \/ InitCall("compute_days_inactive", LookupArgs)

Calling(fn) == pc = "call" /\ call.fn = fn

CallGrowthRate ==
    /\ Calling("compute_growth_rate")
    /\ Return(<<compute_growth_rate(call.args[1], call.args[2])>>)

CallProductionRatio ==
    /\ Calling("compute_production_ratio")
    /\ Return(<<compute_production_ratio(call.args[1], call.args[2])>>)

CallModelDiversity ==
    /\ Calling("compute_model_diversity")
    /\ Return(<<compute_model_diversity(call.args[1], call.args[2])>>)

CallDomainUsers ==
    /\ Calling("compute_domain_users")
    /\ Return(<<compute_domain_users(call.args[1], call.args[2])>>)

CallCrossChannelSpend ==
    /\ Calling("compute_cross_channel_spend")
    /\ Return(<<compute_cross_channel_spend(call.args[1], call.args[2])>>)

CallDaysInactive ==
    /\ Calling("compute_days_inactive")
    /\ Return(<<compute_days_inactive(call.args[1], call.args[2])>>)

NextLookup ==
    \/ CallGrowthRate
    \/ CallProductionRatio
    \/ CallModelDiversity
    \/ CallDomainUsers
    \/ CallCrossChannelSpend
    \/ CallDaysInactive

SpecLookup == InitLookup /\ [][NextLookup]_vars

\* The monthly buckets compute_growth_rate works on for the call in progress
Buckets == TailN(MonthlyTotals(Only(call.args[1], call.args[2])), 4)

\* The period-over-period changes whose base bucket has spend
ValidChanges == {i \in 1..(Len(Buckets) - 1) : Buckets[i] /= 0}

\* C16: compute_growth_rate excludes the change after a zero-spend bucket: its
\* result is never infinite or undefined, and it is 0 when no valid
\* period-over-period change remains (buckets [0, 100] or [0, 0]).
C16_ZeroBucketExcluded ==
    Returned("compute_growth_rate") =>
        /\ call.ret[1] /= INF
        /\ call.ret[1] /= NAN
        /\ ValidChanges = {} => call.ret[1] = 0

\* C19: a lookup whose identifier is on no row of the table (an empty table
\* included) returns its default: growth rate 0, production ratio 0, model
\* diversity 0, domain users 0, an all-zero channel breakdown, days inactive 999.
C19_AbsentIdDefaults ==
    (pc = "returned" /\ \A i \in 1..Len(call.args[1]) :
                            call.args[1][i].account_id /= call.args[2]) =>
        call.ret[1] =
            CASE call.fn = "compute_growth_rate" -> 0
              [] call.fn = "compute_production_ratio" -> 0
              [] call.fn = "compute_model_diversity" -> 0
              [] call.fn = "compute_domain_users" -> 0
              [] call.fn = "compute_cross_channel_spend" ->
                     [direct |-> 0, bedrock |-> 0, vertex |-> 0, seats |-> 0, total |-> 0]
              [] call.fn = "compute_days_inactive" -> 999

\* An unknown identifier looked up in a table of two accounts
C19_Witness ==
    /\ Returned("compute_days_inactive")
    /\ Len(call.args[1]) = 2
    /\ call.args[2] = "ACC-9"
    /\ call.ret[1] = 999

----------------------------------------------------------------------------
(* The growth blend of compute_all_signals (signals.py lines 110-117)       *)

\* row["growth_rate"], in 1/10^4
BlendStoredValues == {-2000, -500, -1, 0, 1, 1000, 1001, 3000, 6000}

\* compute_growth_rate's result, in 1/10^5
BlendDerivedValues == {-99976, -50000, -5, 0, 5, 15, 20000, 26824, 409500000, INF}

BlendArgs == BlendStoredValues \X BlendDerivedValues

InitBlend == InitCall("blended_growth", BlendArgs)

CallBlendGrowth ==
    /\ Calling("blended_growth")
    /\ Return(<<BlendGrowth(call.args[1], call.args[2])>>)

SpecBlend == InitBlend /\ [][CallBlendGrowth]_vars

\* C17: computed_growth_rate is 0.7 * stored growth_rate + 0.3 * derived growth
\* rounded to 4 decimals (within half of 1/10^4 of the exact sum, which is
\* 70 * stored + 3 * derived in 1/10^6); stored 0.10 with derived 0.20 gives
\* 0.13; with derived growth 0 the result is 0.7 * stored growth.
C17_BlendedGrowth ==
    Returned("blended_growth") =>
        LET stored_growth == call.args[1]
            growth == call.args[2]
            blended == call.ret[1]
        IN  /\ growth /= INF =>
                   Abs(100 * blended - (70 * stored_growth + 3 * growth)) <= 50
            /\ growth = INF => blended = INF
            /\ (stored_growth = 1000 /\ growth = 20000) => blended = 1300
            /\ growth = 0 => Abs(10 * blended - 7 * stored_growth) <= 5

\* Stored growth 0.10 blended with a derived growth of 0.20
C17_Witness ==
    /\ Returned("blended_growth")
    /\ call.args = <<1000, 20000>>
    /\ call.ret = <<1300>>

----------------------------------------------------------------------------
(* Claims about the enriched table, checked under SpecPipeline *)

Enriched == call.fn = "load_data" /\ pc \in {"enriched", "returned"}

ChannelSpendFields ==
    {"latest_direct_spend", "latest_bedrock_spend", "latest_vertex_spend",
     "latest_seat_spend"}

\* C18: the active-channel count compute_all_signals derives for an account is
\* the number of its four channel-spend fields that are strictly positive; it
\* lies in 0..4 and a channel with spend exactly 0 is not counted.
C18_ActiveChannelCount ==
    Enriched =>
        \A i \in 1..Len(call.args[1]) :
            /\ call.ret[1][i].n_active_channels =
                   Cardinality({f \in ChannelSpendFields : call.args[1][i][f] > 0})
            /\ call.ret[1][i].n_active_channels \in 0..4

\* An account with three paying channels and a seat spend of exactly 0
C18_Witness ==
    /\ Enriched
    /\ call.args[1][1].latest_seat_spend = 0
    /\ call.args[1][1].latest_vertex_spend > 0
    /\ call.ret[1][1].n_active_channels = 3

----------------------------------------------------------------------------
(* The marketplace-to-direct ratio of generator.py lines 217-222            *)

MaxMarketplace == 12

MaxDirect == 12

RatioArgs == (0..MaxMarketplace) \X (0..MaxDirect)

InitRatio == InitCall("marketplace_to_direct", RatioArgs)

CallMarketplaceToDirect ==
    /\ Calling("marketplace_to_direct")
    /\ Return(<<marketplace_to_direct(call.args[1], call.args[2])>>)

SpecRatio == InitRatio /\ [][CallMarketplaceToDirect]_vars

\* C20: the ratio is the sentinel 99.0 when direct spend is 0 and marketplace
\* spend is positive, is marketplace spend / direct spend rounded to 2 decimals
\* (within half of 1/100 of the quotient) when direct spend is positive, and is
\* never infinite or undefined.
C20_RatioSentinel ==
    Returned("marketplace_to_direct") =>
        LET marketplace_spend == call.args[1]
            direct_spend == call.args[2]
            ratio == call.ret[1]
        IN  /\ (direct_spend = 0 /\ marketplace_spend > 0) => ratio = 9900
            /\ direct_spend > 0 =>
                   2 * Abs(100 * marketplace_spend - ratio * direct_spend) <= direct_spend
            /\ ratio /= INF
            /\ ratio /= NAN

\* Marketplace spend without any direct spend
C20_Witness ==
    /\ Returned("marketplace_to_direct")
    /\ call.args = <<5, 0>>
    /\ call.ret = <<9900>>

----------------------------------------------------------------------------
(* _normalize_spend_log(spend), called on pairs of spends *)

SpendProbes == {-1, 0, 1, 10, 100, 500, 1000, 10000, 20000, 50000, 80000, 100000}

SpendArgs == SpendProbes \X SpendProbes

InitSpend == InitCall("_normalize_spend_log", SpendArgs)

CallNormalizeSpendLog ==
    /\ Calling("_normalize_spend_log")
    /\ Return(<<normalize_spend_log(call.args[1]), normalize_spend_log(call.args[2])>>)

SpecSpend == InitSpend /\ [][CallNormalizeSpendLog]_vars

\* C21: the spend scorer returns 0 for every spend <= 0 and for every spend at
\* or below the floor of 500, returns 100 at the ceiling of 80,000 and above it,
\* and is monotonic non-decreasing in spend.
C21_SpendScorer ==
    Returned("_normalize_spend_log") =>
        /\ \A i \in 1..2 :
               /\ call.args[i] <= 0 => call.ret[i] = 0
               /\ call.args[i] <= 500 => call.ret[i] = 0
               /\ call.args[i] >= 80000 => call.ret[i] = Pts(100)
        /\ call.args[1] <= call.args[2] => call.ret[1] <= call.ret[2]

\* A spend below the floor compared with one strictly between floor and ceiling
C21_Witness ==
    /\ Returned("_normalize_spend_log")
    /\ call.args = <<100, 20000>>
    /\ call.ret[1] = 0
    /\ call.ret[2] > 0
    /\ call.ret[2] < Pts(100)

----------------------------------------------------------------------------
(* The end-to-end scenario account, checked under Spec *)

ScenarioRow ==
    [latest_total_spend |-> 50000,
     computed_growth_rate |-> 3000,
     daily_requests |-> 20000,
     prod_ratio |-> 900,
     error_rate |-> 150,
     n_models |-> 3,
     unique_users |-> 12,
     enterprise_seats |-> 80,
     n_active_channels |-> 3,
     marketplace_to_direct |-> 120,
     days_inactive |-> 2]

\* C22: the scenario account (spend 50,000, growth 0.30, 20,000 daily requests,
\* prod_ratio 0.90, error_rate 0.015, 3 models, 12 users, 80 seats, 3 channels,
\* ratio 1.2, 2 days inactive) is scored with risk penalty 0, team adoption 92,
\* cross-channel 80 and a stage of Enterprise Ready or High Velocity.
C22_Scenario ==
    (Scored /\ row = ScenarioRow) =>
        /\ locals.risk_penalty = 0
        /\ locals.team_adoption = Pts(92)
        /\ locals.cross_channel = Pts(80)
        /\ result.risk_penalty = 0
        /\ result.team_adoption_score = 920
        /\ result.cross_channel_score = 800
        /\ result.stage \in {"Enterprise Ready", "High Velocity"}

\* The scenario account has been scored; its composite is 77.7
C22_Witness ==
    /\ Scored
    /\ row = ScenarioRow
    /\ result.conversion_score = 777
    /\ result.stage = "High Velocity"

----------------------------------------------------------------------------
(* The components of the risk penalty, checked under SpecRisk *)

\* 4.0 above 14 days, (days_inactive - 7) / 7 * 4.0 from 8 to 14 days, else 0
ClaimedInactivity(days_inactive) ==
    IF days_inactive > 14 THEN Pts(4)
    ELSE IF days_inactive > 7 THEN ((days_inactive - 7) * Pts(4)) \div 7
    ELSE 0

\* min(4.0, |growth| * 20) for a negative growth (in 1/10^4), else 0
ClaimedDeclining(growth_rate) ==
    IF growth_rate >= 0 THEN 0
    ELSE IF -growth_rate >= 2000 THEN Pts(4)
    ELSE (-growth_rate) * (Pts(20) \div 10000)

\* 2.0 for at most one model, else 0
ClaimedDiversity(n_models) == IF n_models <= 1 THEN Pts(2) ELSE 0

\* C23: the risk penalty is the sum, clamped to at most 10, of an inactivity
\* component, a declining-growth component and a low-model-diversity component,
\* each a function of its own argument only; at 14 days the sliding inactivity
\* formula gives the same 4.0 as the step above 14 days.
C23_RiskComponents ==
    Returned("compute_risk_penalty") =>
        LET sum == ClaimedInactivity(call.args[1]) + ClaimedDeclining(call.args[2])
                       + ClaimedDiversity(call.args[3])
        IN  /\ call.ret[1] = (IF sum > Pts(10) THEN Pts(10) ELSE sum)
            /\ (call.args[1] \in {14, 15} /\ call.args[2] >= 0 /\ call.args[3] > 1) =>
                   call.ret[1] = Pts(4)

\* All three components contribute: 10 days inactive, growth -0.10, one model
C23_Witness ==
    /\ Returned("compute_risk_penalty")
    /\ call.args = <<10, -1000, 1>>
    /\ call.ret[1] = ((3 * Pts(4)) \div 7) + Pts(2) + Pts(2)

----------------------------------------------------------------------------
(* The category weights of score_account, checked under Spec *)

\* w/10 of a sub-score
Tenths(x, w) == (x \div 10) * w

Between(x, subs) ==
    /\ \E lo \in subs : lo <= x
    /\ \E hi \in subs : x <= hi

\* C24: Usage Intensity is 0.4*spend + 0.4*growth + 0.2*request volume,
\* Production Maturity 0.4*production ratio + 0.3*error rate + 0.3*model
\* diversity, Team Adoption 0.6*unique users + 0.4*enterprise seats, Cross-Channel
\* the cross-channel score itself, all over the unrounded sub-scores; every
\* category lies between the smallest and the largest of its sub-scores.
C24_CategoryWeights ==
    Scored =>
        LET spend == normalize_spend_log(row.latest_total_spend)
            growth == score_growth(row.computed_growth_rate)
            requests == score_daily_requests(row.daily_requests)
            prod == score_prod_ratio(row.prod_ratio)
            error == score_error_rate(row.error_rate)
            models == score_model_diversity(row.n_models)
            users == score_domain_users(row.unique_users)
            seats == score_enterprise_seats(row.enterprise_seats)
            cross == score_cross_channel(row.n_active_channels, row.marketplace_to_direct)
        IN  /\ locals.usage_intensity =
                   Tenths(spend, 4) + Tenths(growth, 4) + Tenths(requests, 2)
            /\ locals.production_maturity =
                   Tenths(prod, 4) + Tenths(error, 3) + Tenths(models, 3)
            /\ locals.team_adoption = Tenths(users, 6) + Tenths(seats, 4)
            /\ locals.cross_channel = cross
            /\ Between(locals.usage_intensity, {spend, growth, requests})
            /\ Between(locals.production_maturity, {prod, error, models})
            /\ Between(locals.team_adoption, {users, seats})
            /\ Between(locals.cross_channel, {cross})

\* Users at 100 and seats at 80: Team Adoption lies strictly between them
C24_Witness ==
    /\ Scored
    /\ row.unique_users = 12
    /\ row.enterprise_seats = 80
    /\ locals.team_adoption > Pts(80)
    /\ locals.team_adoption < Pts(100)
    /\ locals.usage_intensity > 0

----------------------------------------------------------------------------
(* compute_growth_rate on histories of several months and channels *)

MaxBuckets == 5

HistorySpendValues == {100, 102}

\* One row per month 0..k-1 for ACC-1
MonthlyRows(spends) ==
    [i \in 1..Len(spends) |-> [account_id |-> "ACC-1", month_idx |-> i - 1, spend |-> spends[i]]]

\* A second channel of ACC-1, or a row of ACC-2, in one of the months
ExtraRows(k) ==
    {<<>>} \cup {<<[account_id |-> a, month_idx |-> m, spend |-> 100]>> :
                    a \in AccountIds, m \in 0..(k - 1)}

\* The tables with k months: the rows in month order, or all rows reversed
TablesOf(k) ==
    UNION {{MonthlyRows(s) \o x, Reverse(x \o MonthlyRows(s))} :
               s \in [1..k -> HistorySpendValues], x \in ExtraRows(k)}

HistoryTables == UNION {TablesOf(k) : k \in 0..MaxBuckets}

InitHistory == InitCall("compute_growth_rate_history", HistoryTables \X {"ACC-1"})

CallGrowthRateHistory ==
    /\ Calling("compute_growth_rate_history")
    /\ Return(<<compute_growth_rate(call.args[1], call.args[2])>>)

SpecHistory == InitHistory /\ [][CallGrowthRateHistory]_vars

\* The bucket indexes of an account's rows
MonthsOf(df, account_id) == {df[i].month_idx : i \in {j \in 1..Len(df) : df[j].account_id = account_id}}

\* Total spend of an account in one bucket, across its rows
BucketSpend(df, account_id, m) == SumSpend(Only(df, account_id), m)

\* The last four bucket indexes of a set, or all of them when there are fewer
LastFour(months) == {m \in months : Cardinality({n \in months : n > m}) < 4}

\* The growth rate the claim describes: per-bucket sums in chronological order,
\* 0 below two buckets, else the annualized mean change over the last 4 buckets
ClaimedGrowth(df, account_id) ==
    LET months == MonthsOf(df, account_id)
        order == Ascending(LastFour(months))
        recent == [i \in 1..Len(order) |-> BucketSpend(df, account_id, order[i])]
        changes == [i \in 1..(Len(recent) - 1) |-> PctChange(recent[i], recent[i + 1])]
    IN  IF Cardinality(months) < 2 THEN 0
        ELSE Annualize(Mean(changes))

\* The rows that can matter: the account's own rows in its last four buckets
Relevant(df, account_id) ==
    SelectSeq(df, LAMBDA r : /\ r.account_id = account_id
                             /\ r.month_idx \in LastFour(MonthsOf(df, account_id)))

\* C25: compute_growth_rate sums the account's spend per bucket, orders the
\* buckets by index whatever the row order, returns 0 below 2 buckets and
\* otherwise uses the last 4 buckets only; reordering the rows, or dropping the
\* rows of earlier buckets and of other accounts, leaves the result unchanged.
C25_LastFourBuckets ==
    Returned("compute_growth_rate_history") =>
        /\ call.ret[1] = ClaimedGrowth(call.args[1], call.args[2])
        /\ call.ret[1] = compute_growth_rate(Reverse(call.args[1]), call.args[2])
        /\ call.ret[1] = compute_growth_rate(Relevant(call.args[1], call.args[2]), call.args[2])
        /\ Cardinality(MonthsOf(call.args[1], call.args[2])) < 2 => call.ret[1] = 0

\* Five buckets in reverse row order: the rise from the first to the second
\* bucket is outside the last four, which are flat
C25_Witness ==
    /\ Returned("compute_growth_rate_history")
    /\ Len(call.args[1]) = 5
    /\ call.args[1][1].month_idx = 4
    /\ BucketSpend(call.args[1], "ACC-1", 0) = 100
    /\ \A m \in 1..4 : BucketSpend(call.args[1], "ACC-1", m) = 102
    /\ call.ret[1] = 0

----------------------------------------------------------------------------
(* _score_growth(growth_rate) on declining, flat and growing accounts *)

MaxDecline == 2500

SignedGrowthGaps == {0, 1, 100, 2000}

SignedGrowthArgs == {<<g, g + d>> : g \in (-MaxDecline)..500, d \in SignedGrowthGaps}

InitSignedGrowth == InitCall("_score_growth", SignedGrowthArgs)

CallScoreGrowthSigned ==
    /\ Calling("_score_growth")
    /\ Return(<<score_growth(call.args[1]), score_growth(call.args[2])>>)

SpecSignedGrowth == InitSignedGrowth /\ [][CallScoreGrowthSigned]_vars

\* C26: the growth scorer is monotonic non-decreasing over its whole input
\* range, negative growth included: g1 <= g2 implies
\* _score_growth(g1) <= _score_growth(g2).
C26_GrowthMonotonicEverywhere ==
    (Returned("_score_growth") /\ call.args[1] <= call.args[2]) =>
        call.ret[1] <= call.ret[2]

----------------------------------------------------------------------------
(* _score_prod_ratio(prod_ratio) on pairs of ratios in [0, 1] *)

\* prod_ratio 1.0 in 1/1000
FullRatio == 10^3

ProdRatioGaps == {0, 1, 10, 100}

ProdRatioArgs ==
    {<<p, p + d>> : p \in 0..FullRatio, d \in ProdRatioGaps} \cap ((0..FullRatio) \X (0..FullRatio))

InitProdRatio == InitCall("_score_prod_ratio", ProdRatioArgs)

CallScoreProdRatio ==
    /\ Calling("_score_prod_ratio")
    /\ Return(<<score_prod_ratio(call.args[1]), score_prod_ratio(call.args[2])>>)

SpecProdRatio == InitProdRatio /\ [][CallScoreProdRatio]_vars

\* C27: the production-ratio scorer is monotonic non-decreasing over [0, 1]:
\* r1 <= r2 implies _score_prod_ratio(r1) <= _score_prod_ratio(r2), across the
\* 0.40 boundary too.
C27_ProdRatioMonotonic ==
    (Returned("_score_prod_ratio") /\ call.args[1] <= call.args[2]) =>
        call.ret[1] <= call.ret[2]

----------------------------------------------------------------------------
(* The batch pipeline on accounts tables that may repeat an account_id *)

AnyAccountRows == UNION {AccountRows(a) : a \in AccountIds}

\* Tables of one or two rows, the same identifier on both rows included
AnyAccountTables ==
    {<<r>> : r \in AnyAccountRows} \cup {<<r1, r2>> : r1 \in AnyAccountRows, r2 \in AnyAccountRows}

\* The usage history is empty or one row: the claim is about the accounts table
AnyTableArgs == AnyAccountTables \X SeqsUpTo(UsageRows, 1)

InitAnyTable == InitCall("load_data", AnyTableArgs)

SpecAnyTable == InitAnyTable /\ [][NextPipeline]_vars

\* The derived values of an output row are those of the input row r
DerivedFrom(out, r) ==
    /\ out.channel_direct = r.latest_direct_spend
    /\ out.channel_bedrock = r.latest_bedrock_spend
    /\ out.channel_vertex = r.latest_vertex_spend
    /\ out.channel_seats = r.latest_seat_spend
    /\ out.n_active_channels = Cardinality({f \in ChannelSpendFields : r[f] > 0})

\* C28: for any accounts table, one that repeats an account_id included,
\* compute_all_signals and score_all_accounts return as many rows as they were
\* given, and each output row's channel spends, active-channel count, scores and
\* stage are computed from that row's own fields.
C28_RowCountPreserved ==
    /\ Enriched =>
           /\ Len(call.ret[1]) = Len(call.args[1])
           /\ \A i \in 1..Len(call.args[1]) : DerivedFrom(call.ret[1][i], call.args[1][i])
    /\ Returned("load_data") =>
           /\ Len(call.ret[2]) = Len(call.ret[1])
           /\ \A i \in 1..Len(call.ret[1]) :
                  call.ret[2][i] = JoinRows(call.ret[1][i], score_account(call.ret[1][i]))

----------------------------------------------------------------------------
(* An account scored and shown on the detail page: score_account, then       *)
(* get_recommended_action and get_action_explanation on the scored row       *)

\* The fields every record carries; growth and channel count are optional
DetailBaseRows ==
    [latest_total_spend : {10000},
     daily_requests : {1000},
     prod_ratio : {600},
     error_rate : {150},
     n_models : {1, 2},
     unique_users : {5},
     enterprise_seats : {0},
     marketplace_to_direct : {120},
     days_inactive : {3, 15}]

NoFields == [f \in {} |-> 0]

ComputedGrowthValues == {-1001, -1, 0, 1}

FallbackGrowthValues == {-500, 3000}

GrowthFields ==
    {NoFields}
        \cup {[computed_growth_rate |-> c] : c \in ComputedGrowthValues}
        \cup {[growth_rate |-> g] : g \in FallbackGrowthValues}
        \cup {[computed_growth_rate |-> c, growth_rate |-> g] :
                 c \in ComputedGrowthValues, g \in FallbackGrowthValues}

ChannelFields ==
    {NoFields}
        \cup {[n_active_channels |-> a] : a \in {2, 3}}
        \cup {[n_channels |-> n] : n \in {1, 3}}
        \cup {[n_active_channels |-> a, n_channels |-> n] : a \in {2, 3}, n \in {1, 3}}

DetailRows ==
    {JoinRows(JoinRows(b, g), c) : b \in DetailBaseRows, g \in GrowthFields, c \in ChannelFields}

InitDetail ==
    /\ row \in DetailRows
    /\ locals = <<>>
    /\ result = <<>>
    /\ call = [fn |-> "render", args |-> <<>>, ret |-> <<>>]
    /\ pc = "loaded"

\* scoring.py lines 224-231: the record is scored and carries its result
ScoreRow ==
    /\ pc = "loaded"
    /\ locals' = score_account_locals(row)
    /\ result' = JoinRows(row, score_account(row))
    /\ pc' = "detail"
    /\ UNCHANGED <<row, call>>

\* account_detail.py line 201
RecommendAction ==
    /\ pc = "detail"
    /\ call' = [call EXCEPT !.ret = <<get_recommended_action(result)>>]
    /\ pc' = "action"
    /\ UNCHANGED <<row, locals, result>>

\* account_detail.py line 202
ExplainAction ==
    /\ pc = "action"
    /\ call' = [call EXCEPT !.ret = <<call.ret[1], get_action_explanation(result)>>]
    /\ pc' = "explained"
    /\ UNCHANGED <<row, locals, result>>

NextDetail == ScoreRow \/ RecommendAction \/ ExplainAction

SpecDetail == InitDetail /\ [][NextDetail]_vars

Explained == pc = "explained"

ReEngageAction == "Trigger re-engagement campaign; offer office hours"

ReEngageSentence == "Flat or declining usage ({}). Needs re-engagement to prevent churn."

\* C29: for a record in stage Nurture the action is the re-engagement action
\* exactly when the explanation carries the 'Flat or declining usage ... Needs
\* re-engagement' sentence, for every growth value, 0 included.
C29_ActionMatchesExplanation ==
    (Explained /\ result.stage = "Nurture") =>
        ((call.ret[1] = ReEngageAction) <=> (call.ret[2].parts[1][1] = ReEngageSentence))

\* computed_growth_rate when the record has it, else growth_rate, else 0
ResolvedGrowth(r) ==
    IF "computed_growth_rate" \in DOMAIN r THEN r.computed_growth_rate
    ELSE IF "growth_rate" \in DOMAIN r THEN r.growth_rate
    ELSE 0

\* n_active_channels when the record has it, else n_channels, else 1
ResolvedChannels(r) ==
    IF "n_active_channels" \in DOMAIN r THEN r.n_active_channels
    ELSE IF "n_channels" \in DOMAIN r THEN r.n_channels
    ELSE 1

Sentences(parts) == {parts[i][1] : i \in 1..Len(parts)}

\* C30: score_account, get_recommended_action and get_action_explanation take
\* the growth rate from computed_growth_rate, else growth_rate, else 0; in
\* score_account that one value feeds the growth sub-score and the risk
\* penalty, and the channel count is n_active_channels, else n_channels, else 1.
C30_ResolvedGrowthAndChannels ==
    Explained =>
        LET g == ResolvedGrowth(row)
            spend == normalize_spend_log(row.latest_total_spend)
            requests == score_daily_requests(row.daily_requests)
            parts == call.ret[2].parts
        IN  /\ locals.usage_intensity =
                   Tenths(spend, 4) + Tenths(score_growth(g), 4) + Tenths(requests, 2)
            /\ locals.risk_penalty =
                   compute_risk_penalty(row.days_inactive, g, row.n_models)
            /\ locals.cross_channel =
                   score_cross_channel(ResolvedChannels(row), row.marketplace_to_direct)
            /\ result.stage = "Nurture" =>
                   /\ (call.ret[1] = ReEngageAction) <=> (g < 0)
                   /\ (parts[1][1] = ReEngageSentence) <=> ~(g > 0)
                   /\ parts[1][2] = FmtPct(g)
            /\ result.stage = "At Risk" =>
                   ("Usage is declining significantly." \in Sentences(parts)) <=> (g < -1000)

\* A Nurture record without computed_growth_rate or n_active_channels: the
\* stored growth rate (negative) and n_channels are used
C30_Witness ==
    /\ Explained
    /\ DOMAIN row \cap {"computed_growth_rate", "n_active_channels"} = {}
    /\ {"growth_rate", "n_channels"} \subseteq DOMAIN row
    /\ ResolvedGrowth(row) = -500
    /\ ResolvedChannels(row) = 3
    /\ result.stage = "Nurture"
    /\ call.ret[1] = ReEngageAction

====
